---- MODULE Spec2Model ----
(***************************************************************************)
(* Model of app.py: a Flask application with one route, GET /, which       *)
(* resolves a question from the query parameters q / ref, forwards it to a *)
(* remote chat-completion API and renders the answer or an error message.  *)
(*                                                                         *)
(* Text that the program inspects character by character (questions,       *)
(* query strings, URLs, the API key) is a sequence of ASCII codes; Python's*)
(* None is the one-element sequence NoneStr.  Opaque text (answers, error  *)
(* messages, model names) is a TLA+ string, with None for Python's None.   *)
(***************************************************************************)
EXTENDS Integers, Sequences, FiniteSets, TLC

\* ------------------------------------------------------------------ bounds
NumReq == 2      \* request slots (requests that can be in flight together)
MaxLen == 3      \* longest question drawn by InitURL

Req == 1..NumReq

\* ------------------------------------------------------------ Python values
NoneStr == <<-1>>
None == "None"
Undefined == <<-2>>

\* Python truthiness of an optional str: None and "" are falsy.
Truthy(s) == s # NoneStr /\ s # <<>>

\* Python's `a or b`.
PyOr(a, b) == IF Truthy(a) THEN a ELSE b

\* ASCII codes used below.
SP == 32
PLUS == 43
PCT == 37
AMP == 38
EQ == 61
QMARK == 63
HASH == 35

\* ------------------------------------------------- urllib.parse.urlencode
Unreserved ==
    (48..57) \cup (65..90) \cup (97..122) \cup {95, 46, 45, 126}

HexDigit(d) == IF d < 10 THEN 48 + d ELSE 55 + d

\* quote_plus on one byte with '+' taken for a safe character.
QuoteByteRawPlus(b) ==
    IF b \in Unreserved \cup {PLUS} THEN <<b>>
    ELSE IF b = SP THEN <<PLUS>>
    ELSE <<PCT, HexDigit(b \div 16), HexDigit(b % 16)>>

\* quote_plus on one byte: unreserved bytes pass, space becomes '+',
\* everything else becomes %XX with upper-case hex digits.
QuoteByte(b) ==
    IF b \in Unreserved THEN <<b>>
    ELSE IF b = SP THEN <<PLUS>>
    ELSE <<PCT, HexDigit(b \div 16), HexDigit(b % 16)>>

RECURSIVE QuotePlus(_)
QuotePlus(s) ==
    IF s = <<>> THEN <<>> ELSE QuoteByte(Head(s)) \o QuotePlus(Tail(s))

\* urlencode({'q': question})
UrlEncodeQ(s) == <<113, EQ>> \o QuotePlus(s)

\* ------------------------------------------- request.args (query parsing)
IsHex(c) == c \in (48..57) \cup (65..70) \cup (97..102)

HexVal(c) ==
    IF c \in 48..57 THEN c - 48
    ELSE IF c \in 65..70 THEN c - 55
    ELSE c - 87

RECURSIVE Unquote(_)
Unquote(s) ==
    IF s = <<>> THEN <<>>
    ELSE IF s[1] = PCT /\ Len(s) >= 3 /\ IsHex(s[2]) /\ IsHex(s[3])
         THEN <<16 * HexVal(s[2]) + HexVal(s[3])>> \o Unquote(SubSeq(s, 4, Len(s)))
         ELSE <<s[1]>> \o Unquote(Tail(s))

PlusToSpace(s) == [i \in 1..Len(s) |-> IF s[i] = PLUS THEN SP ELSE s[i]]

\* Index of the first c in s, or 0.
IndexOf(s, c) ==
    IF \E i \in 1..Len(s) : s[i] = c
    THEN CHOOSE i \in 1..Len(s) : s[i] = c /\ \A j \in 1..(i - 1) : s[j] # c
    ELSE 0

\* s.split(c): the pieces of s between the occurrences of c.
RECURSIVE Split(_, _)
Split(s, c) ==
    LET i == IndexOf(s, c) IN
    IF i = 0 THEN <<s>>
    ELSE <<SubSeq(s, 1, i - 1)>> \o Split(SubSeq(s, i + 1, Len(s)), c)

\* One name=value piece, split on the first '=', both sides decoded.
ParsePair(p) ==
    LET i == IndexOf(p, EQ)
        n == IF i = 0 THEN p ELSE SubSeq(p, 1, i - 1)
        v == IF i = 0 THEN <<>> ELSE SubSeq(p, i + 1, Len(p))
    IN  <<Unquote(PlusToSpace(n)), Unquote(PlusToSpace(v))>>

\* parse_qsl(query, keep_blank_values=True): empty pieces are skipped.
ParseQsl(qs) ==
    LET pieces == IF qs = <<>> THEN <<>> ELSE Split(qs, AMP)
        kept == SelectSeq(pieces, LAMBDA p : p # <<>>)
    IN  [i \in 1..Len(kept) |-> ParsePair(kept[i])]

\* MultiDict.get(key): the first value stored under key, None if there is none.
FirstValue(pairs, key) ==
    IF \E i \in 1..Len(pairs) : pairs[i][1] = key
    THEN pairs[CHOOSE i \in 1..Len(pairs) :
                 pairs[i][1] = key /\ \A j \in 1..(i - 1) : pairs[j][1] # key][2]
    ELSE NoneStr

KeyQ == <<113>>
KeyRef == <<114, 101, 102>>

\* The query part of a URL: after the first '?', up to a '#'.
UrlQuery(url) ==
    LET i == IndexOf(url, QMARK)
        rest == IF i = 0 THEN <<>> ELSE SubSeq(url, i + 1, Len(url))
        j == IndexOf(rest, HASH)
    IN  IF j = 0 THEN rest ELSE SubSeq(rest, 1, j - 1)

\* request.args of a request for `url`, reduced to the two keys ask() reads.
ParseArgs(url) ==
    LET pairs == ParseQsl(UrlQuery(url))
    IN  [q |-> FirstValue(pairs, KeyQ), ref |-> FirstValue(pairs, KeyRef)]

\* ------------------------------------------------------------------ state
VARIABLES
    env,          \* the process environment: OPENAI_API_KEY, OPENAI_MODEL
    main_pc,      \* position of the module-level code
    api_key,      \* module global api_key (also openai.api_key)
    OPENAI_MODEL, \* module global OPENAI_MODEL
    routes,       \* TRUE once @app.route('/') has registered ask
    log,          \* records written through logger
    pc,           \* per request: none, pending, calling, returned, done
    args,         \* per request: request.args, reduced to q and ref
    origin,       \* per request: the request whose share URL it follows, or 0
    question,     \* per request: the local variable question of ask
    calls,        \* per request: chat-completion calls issued so far
    call_req,     \* per request: the payload of the call issued
    outcome,      \* per request: what the remote call returned or raised
    response      \* per request: the variables handed to render_template

vars ==
    <<env, main_pc, api_key, OPENAI_MODEL, routes, log, pc, args, origin,
      question, calls, call_req, outcome, response>>

\* -------------------------------------------------------------- constants
DefaultModel == "gpt-4o-mini"
SystemPrompt == "You are a helpful assistant."
MaxTokens == 500
LogPrefixLen == 50

\* request.host_url of the requests served, "http://h/" shortened to "h/".
HostUrl == <<104, 47>>

MsgRateLimit == "API rate limit exceeded. Please try again later."
MsgAuth == "API authentication failed. Please check your API key."
MsgConnection == "Unable to connect to OpenAI API. Please check your internet connection."
MsgUnexpected == "An unexpected error occurred. Please try again."

\* ------------------------------------------------ the remote API's replies
ErrorKinds ==
    {"RateLimitError", "AuthenticationError", "APIConnectionError", "OtherError"}

\* str(e) of the exception the client library (or the indexing of an empty
\* choices list) raises.
RawText(kind) ==
    CASE kind = "RateLimitError" -> "raw: 429 rate limit reached for org-1"
      [] kind = "AuthenticationError" -> "raw: 401 incorrect API key sk"
      [] kind = "APIConnectionError" -> "raw: connection error"
      [] kind = "IndexError" -> "raw: list index out of range"
      [] OTHER -> "raw: 500 internal server error"

NoOutcome == [kind |-> "none", choices |-> <<>>]

Outcomes ==
    {[kind |-> "ok", choices |-> c] : c \in {<<"A1", "A2">>, <<>>}}
    \cup {[kind |-> k, choices |-> <<>>] : k \in ErrorKinds}

NoCall == [api_key |-> NoneStr, model |-> None, system |-> None,
           user |-> NoneStr, max_tokens |-> 0]

NoResponse == [question |-> Undefined, answer |-> None,
               share_url |-> Undefined, error |-> None, rendered |-> FALSE]

NoArgs == [q |-> NoneStr, ref |-> NoneStr]

LogRec(level, msg, text, bytes) ==
    [level |-> level, msg |-> msg, text |-> text, bytes |-> bytes]

Prefix(s, n) == SubSeq(s, 1, IF Len(s) < n THEN Len(s) ELSE n)

\* ---------------------------------------------------------- module startup
\* Line 22 written as `if api_key is None`.
KeyMissingOnlyNone(k) == k = NoneStr

\* Line 22: `if not api_key`.
KeyMissing(k) == ~Truthy(k)

\* Lines 21-26: read the key, abort when it is missing.
LoadKey ==
    /\ main_pc = "boot"
    /\ api_key' = env.key
    /\ IF KeyMissing(env.key)
       THEN /\ log' = log \cup
                  {LogRec("ERROR", "OPENAI_API_KEY environment variable is not set!",
                          "", <<>>)}
            /\ main_pc' = "aborted"
       ELSE /\ log' = log
            /\ main_pc' = "keyed"
    /\ UNCHANGED <<env, OPENAI_MODEL, routes, pc, args, origin, question, calls,
                   call_req, outcome, response>>

\* Lines 29-30: os.getenv("OPENAI_MODEL", "gpt-4o-mini").
LoadModel ==
    /\ main_pc = "keyed"
    /\ OPENAI_MODEL' = (IF env.model = None THEN DefaultModel ELSE env.model)
    /\ log' = log \cup {LogRec("INFO", "Using OpenAI model", OPENAI_MODEL', <<>>)}
    /\ main_pc' = "configured"
    /\ UNCHANGED <<env, api_key, routes, pc, args, origin, question, calls,
                   call_req, outcome, response>>

\* Lines 76-77: the decorator registers ask for '/'.
RegisterRoute ==
    /\ main_pc = "configured"
    /\ routes' = TRUE
    /\ main_pc' = "routed"
    /\ UNCHANGED <<env, api_key, OPENAI_MODEL, log, pc, args, origin, question,
                   calls, call_req, outcome, response>>

\* Lines 118-121 (or the WSGI server importing the module): requests are served.
Run ==
    /\ main_pc = "routed"
    /\ main_pc' = "serving"
    /\ log' = log \cup {LogRec("INFO", "Starting Flask app", "", <<>>)}
    /\ UNCHANGED <<env, api_key, OPENAI_MODEL, routes, pc, args, origin, question,
                   calls, call_req, outcome, response>>

\* ------------------------------------------------------------------- ask()
\* Line 85 with a canned question when none is supplied.
ResolveCanned(a) ==
    LET r == PyOr(a.q, IF a.ref = NoneStr THEN <<>> ELSE a.ref)
    IN  IF Truthy(r) THEN r ELSE <<87, 104, 97, 116>>

\* Line 85 with ref tried before q.
ResolveRefFirst(a) ==
    PyOr(IF a.ref = NoneStr THEN <<>> ELSE a.ref, IF a.q = NoneStr THEN <<>> ELSE a.q)

\* Line 85: request.args.get('q') or request.args.get('ref', '').
Resolve(a) == PyOr(a.q, IF a.ref = NoneStr THEN <<>> ELSE a.ref)

\* Lines 85-93 and 46-58: resolve the question; render the empty form, or
\* issue the chat-completion call and block on it.
AskBegin(r) ==
    /\ main_pc = "serving"
    /\ routes
    /\ pc[r] = "pending"
    /\ LET qn == Resolve(args[r]) IN
       /\ question' = [question EXCEPT ![r] = qn]
       /\ IF ~Truthy(qn)
          THEN /\ response' = [response EXCEPT ![r] =
                     [question |-> NoneStr, answer |-> None, share_url |-> Undefined,
                      error |-> None, rendered |-> TRUE]]
               /\ pc' = [pc EXCEPT ![r] = "done"]
               /\ UNCHANGED <<log, calls, call_req>>
          ELSE /\ log' = log \cup
                     {LogRec("INFO", "Querying OpenAI API for question", "",
                             Prefix(qn, LogPrefixLen))}
               /\ call_req' = [call_req EXCEPT ![r] =
                     [api_key |-> api_key, model |-> OPENAI_MODEL,
                      system |-> SystemPrompt, user |-> qn,
                      max_tokens |-> MaxTokens]]
               /\ calls' = [calls EXCEPT ![r] = @ + 1]
               /\ pc' = [pc EXCEPT ![r] = "calling"]
               /\ UNCHANGED response
    /\ UNCHANGED <<env, main_pc, api_key, OPENAI_MODEL, routes, args, origin, outcome>>

\* The remote API answers the call of request r, or the call fails.
RemoteReplies(r) ==
    /\ pc[r] = "calling"
    /\ \E o \in Outcomes : outcome' = [outcome EXCEPT ![r] = o]
    /\ pc' = [pc EXCEPT ![r] = "returned"]
    /\ UNCHANGED <<env, main_pc, api_key, OPENAI_MODEL, routes, log, args, origin,
                   question, calls, call_req, response>>

\* Line 59 indexing the last completion, choices[-1].
LastChoice(choices) == choices[Len(choices)]

\* Line 59: response.choices[0].message.content.
FirstChoice(choices) == choices[1]

\* Lines 62-73 with the original exception re-raised unchanged.
ErrorMessageRaw(kind) == RawText(kind)

\* Lines 62-73 with the two first handlers' messages exchanged.
ErrorMessageSwapped(kind) ==
    CASE kind = "RateLimitError" -> MsgAuth
      [] kind = "AuthenticationError" -> MsgRateLimit
      [] kind = "APIConnectionError" -> MsgConnection
      [] OTHER -> MsgUnexpected

\* Lines 62-73 without the APIConnectionError handler.
ErrorMessageNoConnection(kind) ==
    CASE kind = "RateLimitError" -> MsgRateLimit
      [] kind = "AuthenticationError" -> MsgAuth
      [] OTHER -> MsgUnexpected

\* Lines 62-73: the message of the Exception raised in place of the caught one.
ErrorMessage(kind) ==
    CASE kind = "RateLimitError" -> MsgRateLimit
      [] kind = "AuthenticationError" -> MsgAuth
      [] kind = "APIConnectionError" -> MsgConnection
      [] OTHER -> MsgUnexpected

\* Lines 62-73: what each handler logs before raising.
ErrorLogText(kind) ==
    CASE kind = "RateLimitError" -> "OpenAI rate limit exceeded"
      [] kind = "AuthenticationError" -> "OpenAI authentication failed"
      [] kind = "APIConnectionError" -> "OpenAI API connection error"
      [] OTHER -> "Unexpected error calling OpenAI API"

\* What the try block of get_chatgpt_answer raises for reply o, "none" if
\* nothing: the client's exception, or IndexError on an empty choices list.
RaisedKind(o) ==
    IF o.kind = "ok"
    THEN IF o.choices = <<>> THEN "IndexError" ELSE "none"
    ELSE o.kind

\* Lines 59-73: get_chatgpt_answer once the call has returned or failed.
GetChatgptAnswer(o) ==
    LET k == RaisedKind(o) IN
    IF k = "none"
    THEN [raised |-> FALSE, value |-> FirstChoice(o.choices),
          logged |-> {LogRec("INFO", "Successfully received answer from OpenAI API",
                             "", <<>>)}]
    ELSE [raised |-> TRUE, value |-> ErrorMessage(k),
          logged |-> {LogRec("ERROR", ErrorLogText(k), RawText(k), <<>>)}]

\* Lines 96-97: f"{request.host_url}?{urlencode({'q': question})}".
ShareUrl(qn) == HostUrl \o <<QMARK>> \o UrlEncodeQ(qn)

\* Lines 95-115: the template variables of the answer page or the error page.
Render(qn, res) ==
    IF ~res.raised
    THEN [question |-> qn, answer |-> res.value, share_url |-> ShareUrl(qn),
          error |-> None, rendered |-> TRUE]
    ELSE [question |-> qn, answer |-> None, share_url |-> NoneStr,
          error |-> res.value, rendered |-> TRUE]

\* Line 107: the handler logs str(e) of what get_chatgpt_answer raised.
HandlerLog(res) ==
    IF res.raised
    THEN {LogRec("ERROR", "Error processing request", res.value, <<>>)}
    ELSE {}

\* The reply read by the handler of r if replies were kept in one shared place.
ReplyShared(r) == outcome[CHOOSE s \in Req : pc[s] = "returned"]

\* The reply of the call the handler of r made (local to its own frame).
ReplyFor(r) == outcome[r]

\* Lines 59-115 with a failed call issued once more before giving up.
AskFinishRetry(r) ==
    /\ pc[r] = "returned"
    /\ LET res == GetChatgptAnswer(ReplyFor(r)) IN
       IF res.raised /\ calls[r] < 2
       THEN /\ calls' = [calls EXCEPT ![r] = @ + 1]
            /\ pc' = [pc EXCEPT ![r] = "calling"]
            /\ log' = log \cup res.logged
            /\ UNCHANGED response
       ELSE /\ response' = [response EXCEPT ![r] = Render(question[r], res)]
            /\ log' = log \cup res.logged \cup HandlerLog(res)
            /\ pc' = [pc EXCEPT ![r] = "done"]
            /\ UNCHANGED calls
    /\ UNCHANGED <<env, main_pc, api_key, OPENAI_MODEL, routes, args, origin,
                   question, call_req, outcome>>

\* Lines 59-115: the call has returned or failed; get_chatgpt_answer returns
\* the answer or raises the generic exception, and ask renders the page.
AskFinish(r) ==
    /\ pc[r] = "returned"
    /\ LET res == GetChatgptAnswer(ReplyFor(r)) IN
       /\ response' = [response EXCEPT ![r] = Render(question[r], res)]
       /\ log' = log \cup res.logged \cup HandlerLog(res)
    /\ pc' = [pc EXCEPT ![r] = "done"]
    /\ UNCHANGED <<env, main_pc, api_key, OPENAI_MODEL, routes, args, origin,
                   question, calls, call_req, outcome>>

\* A client opens the share URL of response r as the next request.
Resubmit(r) ==
    /\ r + 1 \in Req
    /\ pc[r] = "done"
    /\ response[r].share_url # NoneStr
    /\ response[r].share_url # Undefined
    /\ pc[r + 1] = "none"
    /\ args' = [args EXCEPT ![r + 1] = ParseArgs(response[r].share_url)]
    /\ origin' = [origin EXCEPT ![r + 1] = r]
    /\ pc' = [pc EXCEPT ![r + 1] = "pending"]
    /\ UNCHANGED <<env, main_pc, api_key, OPENAI_MODEL, routes, log, question,
                   calls, call_req, outcome, response>>

\* ------------------------------------------------------------ specification
KeyPresent == <<115, 107>>

EnvKeys == {NoneStr, <<>>, KeyPresent}
EnvModels == {None, "gpt-x"}

\* The requests clients send while the process starts and runs.
FreshArgs ==
    {[q |-> a, ref |-> b] : a \in {NoneStr, <<>>, <<97>>}, b \in {NoneStr, <<98>>}}

InitWith(envs, pcs, argsets) ==
    /\ env \in envs
    /\ main_pc = "boot"
    /\ api_key = NoneStr
    /\ OPENAI_MODEL = None
    /\ routes = FALSE
    /\ log = {}
    /\ pc \in pcs
    /\ args \in argsets
    /\ \A r \in Req : pc[r] = "none" => args[r] = NoArgs
    /\ origin = [r \in Req |-> 0]
    /\ question = [r \in Req |-> NoneStr]
    /\ calls = [r \in Req |-> 0]
    /\ call_req = [r \in Req |-> NoCall]
    /\ outcome = [r \in Req |-> NoOutcome]
    /\ response = [r \in Req |-> NoResponse]

Init ==
    InitWith([key : EnvKeys, model : EnvModels],
             [Req -> {"none", "pending"}],
             [Req -> FreshArgs \cup {NoArgs}])

Next ==
    \/ LoadKey
    \/ LoadModel
    \/ RegisterRoute
    \/ Run
    \/ \E r \in Req : AskBegin(r)
    \/ \E r \in Req : RemoteReplies(r)
    \/ \E r \in Req : AskFinish(r)
    \/ \E r \in Req : Resubmit(r)

Spec == Init /\ [][Next]_vars

\* Questions over the characters the URL encoding treats specially.
Alphabet == {SP, PLUS, PCT, AMP, EQ, 50}

Strs(n) == UNION {[1..k -> Alphabet] : k \in 0..n}

ShortStrs == {NoneStr, <<>>, <<50>>, <<SP>>}

UrlArgs ==
    {[q |-> s, ref |-> NoneStr] : s \in Strs(MaxLen)}
    \cup {[q |-> NoneStr, ref |-> s] : s \in Strs(MaxLen)}
    \cup {[q |-> a, ref |-> b] : a \in ShortStrs, b \in ShortStrs}

\* One request with any question up to MaxLen characters arrives at a
\* configured process; the other slots are free for its share links.
InitURL ==
    InitWith({[key |-> KeyPresent, model |-> None]},
             {[r \in Req |-> IF r = 1 THEN "pending" ELSE "none"]},
             {[r \in Req |-> IF r = 1 THEN a ELSE NoArgs] : a \in UrlArgs})

SpecURL == InitURL /\ [][Next]_vars

\* ------------------------------------------------------------- properties
Handled(r) == pc[r] \notin {"none", "pending"}

\* The question a request asks, read off its parameters.
Asked(a) ==
    IF a.q # NoneStr /\ a.q # <<>> THEN a.q
    ELSE IF a.ref # NoneStr THEN a.ref
    ELSE <<>>

Succeeded(r) ==
    pc[r] = "done" /\ outcome[r].kind = "ok" /\ outcome[r].choices # <<>>

Failed(r, kind) == pc[r] = "done" /\ outcome[r].kind = kind

RawTexts ==
    {RawText(k) : k \in ErrorKinds \cup {"IndexError"}}

\* C1: a request whose q and ref are both absent or empty is answered at
\* once with the empty form: no chat-completion call is issued for it, and
\* the page has no answer and no error.
C1_EmptyQuestionNoCall ==
    \A r \in Req :
        (Handled(r) /\ ~Truthy(args[r].q) /\ ~Truthy(args[r].ref)) =>
            /\ pc[r] = "done"
            /\ calls[r] = 0
            /\ call_req[r] = NoCall
            /\ outcome[r] = NoOutcome
            /\ response[r].rendered
            /\ response[r].answer = None
            /\ response[r].error = None

C1_Witness ==
    \E r \in Req :
        pc[r] = "done" /\ args[r].q = <<>> /\ args[r].ref = <<>> /\ response[r].rendered

\* C2: for a non-empty question whose remote call succeeds, the page carries
\* exactly that question, the first completion's text unchanged as the
\* answer, a share URL, and no error.
C2_SuccessRendering ==
    \A r \in Req :
        Succeeded(r) =>
            /\ Asked(args[r]) # <<>>
            /\ response[r].rendered
            /\ response[r].question = Asked(args[r])
            /\ response[r].answer = outcome[r].choices[1]
            /\ response[r].share_url # NoneStr
            /\ response[r].share_url # Undefined
            /\ response[r].error = None

C2_Witness ==
    \E r \in Req :
        Succeeded(r) /\ Len(outcome[r].choices) = 2 /\ response[r].answer = "A1"

\* C3 as stated: a connection failure is reported as "Unable to connect to
\* AI API. Please check your internet connection.", with no answer.
C3_ConnectionMessageAsStated ==
    \A r \in Req :
        Failed(r, "APIConnectionError") =>
            /\ response[r].error =
                   "Unable to connect to AI API. Please check your internet connection."
            /\ response[r].answer = None

\* C3 amended: a connection failure is reported as "Unable to connect to
\* OpenAI API. Please check your internet connection.", with no answer.
C3_ConnectionMessage ==
    \A r \in Req :
        Failed(r, "APIConnectionError") =>
            /\ response[r].rendered
            /\ response[r].error =
                   "Unable to connect to OpenAI API. Please check your internet connection."
            /\ response[r].answer = None

C3_Witness ==
    \E r \in Req : Failed(r, "APIConnectionError") /\ response[r].rendered

\* C4: a rate-limit failure is reported as "API rate limit exceeded. Please
\* try again later." and an authentication failure as "API authentication
\* failed. Please check your API key."; in both cases there is no answer and
\* the exception's own text appears nowhere in the response.
C4_RateLimitAndAuthMessages ==
    \A r \in Req :
        /\ Failed(r, "RateLimitError") =>
               response[r].error = "API rate limit exceeded. Please try again later."
        /\ Failed(r, "AuthenticationError") =>
               response[r].error = "API authentication failed. Please check your API key."
        /\ (Failed(r, "RateLimitError") \/ Failed(r, "AuthenticationError")) =>
               /\ response[r].rendered
               /\ response[r].answer = None
               /\ response[r].error \notin RawTexts
               /\ response[r].answer \notin RawTexts

C4_Witness ==
    /\ \E r \in Req : Failed(r, "RateLimitError") /\ response[r].rendered
    /\ \E r \in Req : Failed(r, "AuthenticationError") /\ response[r].rendered

HandlingFailed(r) ==
    pc[r] = "done" /\ Asked(args[r]) # <<>> /\ ~Succeeded(r)

\* C5 as stated: however the handling of a non-empty question fails, the
\* error shown is one of the four messages the specification lists and never
\* the exception's own text.
C5_GenericMessagesAsStated ==
    \A r \in Req :
        /\ HandlingFailed(r) =>
               response[r].error \in
                   {"API rate limit exceeded. Please try again later.",
                    "API authentication failed. Please check your API key.",
                    "Unable to connect to AI API. Please check your internet connection.",
                    "An unexpected error occurred. Please try again."}
        /\ response[r].error \notin RawTexts

\* C5 amended: however the handling of a non-empty question fails, the error
\* shown is one of four generic messages (the connection one reading "Unable
\* to connect to OpenAI API. Please check your internet connection."), a
\* failure outside the three classified kinds gives "An unexpected error
\* occurred. Please try again.", and the exception's own text is never shown.
C5_GenericMessages ==
    \A r \in Req :
        /\ HandlingFailed(r) =>
               /\ response[r].rendered
               /\ response[r].error \in
                      {"API rate limit exceeded. Please try again later.",
                       "API authentication failed. Please check your API key.",
                       "Unable to connect to OpenAI API. Please check your internet connection.",
                       "An unexpected error occurred. Please try again."}
               /\ outcome[r].kind \in {"OtherError", "ok"} =>
                      response[r].error = "An unexpected error occurred. Please try again."
        /\ response[r].error \notin RawTexts

C5_Witness ==
    /\ \E r \in Req : Failed(r, "OtherError") /\ response[r].rendered
    /\ \E r \in Req : HandlingFailed(r) /\ outcome[r].kind = "ok"

\* C6: a request with a non-empty question issues exactly one remote call:
\* none is issued once the call has returned or failed, and the response is
\* produced only after that.
C6_OneCallPerRequest ==
    \A r \in Req :
        /\ calls[r] <= 1
        /\ (Handled(r) /\ Asked(args[r]) # <<>>) => calls[r] = 1
        /\ pc[r] \in {"returned", "done"} /\ Asked(args[r]) # <<>> =>
               outcome[r] # NoOutcome /\ calls[r] = 1
        /\ response[r].rendered =>
               /\ pc[r] = "done"
               /\ Asked(args[r]) # <<>> => outcome[r] # NoOutcome

C6_Witness ==
    \E r \in Req :
        /\ pc[r] = "done" /\ calls[r] = 1
        /\ outcome[r].kind = "RateLimitError" /\ response[r].rendered

IsShareUrl(u) == u # NoneStr /\ u # Undefined

\* C7: the share URL is the base URL, "?q=" and the URL-encoded question, and
\* a request made with that URL resolves to the identical question.
C7_ShareUrlRoundTrip ==
    \A r \in Req :
        (pc[r] = "done" /\ IsShareUrl(response[r].share_url)) =>
            LET u == response[r].share_url
                n == Len(HostUrl) + 3
            IN  /\ question[r] # <<>>
                /\ Len(u) >= n
                /\ SubSeq(u, 1, n) = HostUrl \o <<QMARK, 113, EQ>>
                /\ \A i \in (n + 1)..Len(u) : u[i] \in Unreserved \cup {PLUS, PCT}
                /\ \A s \in Req :
                       origin[s] = r =>
                           /\ args[s].q = question[r]
                           /\ Handled(s) => question[s] = question[r]

C7_Witness ==
    \E s \in Req :
        /\ origin[s] # 0
        /\ pc[s] = "done"
        /\ question[s] = <<PCT, 50, 50>>
        /\ IsShareUrl(response[s].share_url)

\* C8: without an API key in the environment, startup aborts before the
\* route is registered: no request is handled and no remote call is issued;
\* and every remote call carries a configured key.
C8_MissingKeyAborts ==
    /\ ~Truthy(env.key) => main_pc \in {"boot", "aborted"}
    /\ main_pc \in {"boot", "aborted"} =>
           /\ ~routes
           /\ \A r \in Req :
                  ~Handled(r) /\ calls[r] = 0 /\ ~response[r].rendered
    /\ \A r \in Req :
           calls[r] > 0 => Truthy(call_req[r].api_key) /\ call_req[r].api_key = env.key

C8_Witness ==
    /\ main_pc = "aborted"
    /\ env.key = <<>>
    /\ \E r \in Req : pc[r] = "pending" /\ Truthy(args[r].q)

\* What a request with parameters a and remote reply o is answered with
\* when it is handled alone.
Alone(a, o) ==
    IF ~Truthy(Resolve(a))
    THEN [question |-> NoneStr, answer |-> None, share_url |-> Undefined,
          error |-> None, rendered |-> TRUE]
    ELSE Render(Resolve(a), GetChatgptAnswer(o))

ConfigFrozen ==
    main_pc = "serving" => api_key' = api_key /\ OPENAI_MODEL' = OPENAI_MODEL

RequestsIndependent ==
    \A r \in Req :
        /\ Handled(r) => question[r] = Resolve(args[r])
        /\ calls[r] > 0 => call_req[r].user = Resolve(args[r])
        /\ pc[r] = "done" => response[r] = Alone(args[r], outcome[r])

\* C9: under every interleaving of the handlers, each response is the one
\* its own parameters and its own remote reply give, and the API key and the
\* model name are not written once the process serves requests.
C9_RequestsIndependent ==
    [](RequestsIndependent) /\ [][ConfigFrozen]_vars

C9_Witness ==
    \E r, s \in Req :
        /\ r # s
        /\ pc[r] = "done" /\ pc[s] = "done"
        /\ outcome[r].kind = "ok" /\ outcome[r].choices # <<>>
        /\ outcome[s].kind = "AuthenticationError"
        /\ question[r] # question[s]

\* C10: the resolved question is q when q is present and non-empty, ref when
\* q is absent or empty, and empty only when both are absent or empty.
C10_QuestionResolution ==
    \A r \in Req :
        Handled(r) =>
            /\ Truthy(args[r].q) => question[r] = args[r].q
            /\ (~Truthy(args[r].q) /\ args[r].ref # NoneStr) => question[r] = args[r].ref
            /\ (~Truthy(args[r].q) /\ args[r].ref = NoneStr) => question[r] = <<>>
            /\ question[r] = <<>> <=> (~Truthy(args[r].q) /\ ~Truthy(args[r].ref))

C10_Witness ==
    \E r \in Req :
        /\ Handled(r)
        /\ args[r].q = <<50>> /\ args[r].ref = <<SP>>
        /\ question[r] = <<50>>

====
